---- MODULE Spec2Model ----
(***************************************************************************)
(* Model of the deployer's HTTP and WebSocket handlers                     *)
(* (deployer/src/handlers/mod.rs): admission (post_service), the lifecycle *)
(* facade (get_deployment, delete_deployment, delete_service) and the log  *)
(* streaming session (logs_websocket_handler).                             *)
(*                                                                         *)
(* Every `.await` of a handler is one step of the request that runs it.    *)
(* Spec runs the requests one at a time (a call runs to its return before  *)
(* the next starts); ConcSpec interleaves the steps of admissions and     *)
(* service deletions; CancelSpec lets the build engine run between the     *)
(* steps of a handler; LogSpec runs one log streaming session against the  *)
(* log emitter and MultiSpec several of them.                              *)
(*                                                                         *)
(* Persistence (the Registry), DeploymentManager (the Queue / build        *)
(* engine) and the broadcast channel are collaborators whose code is not   *)
(* in handlers/mod.rs; they are modelled from their documented contract.   *)
(***************************************************************************)
EXTENDS Integers, Sequences, FiniteSets, TLC

\* ---------------------------------------------------------------- bounds
MaxDeployments == 2
MaxServices == 2
MaxKills == 2
MaxCalls == 4
MaxLogs == 3

ServiceNames == {"web", "api"}
DeploymentIds == 1..MaxDeployments
Requests == {1, 2}
States == <<"Queued", "Building", "Running">>
\* upload bodies: a stream of chunks; "ERR" is a chunk whose read fails
Streams == {<<"a", "b">>, <<"a", "ERR">>}
Sessions == {1, 2}
\* the deployments whose logs are streamed: a session's target and another one
LogIds == {1, 2}

VARIABLES
    services,         \* Registry: the Service rows {id, name}
    deployments,      \* Registry: the Deployment rows {id, service_id, state}
    nextServiceId,    \* ids the Registry has handed to created services
    nextDeploymentId, \* Uuid::new_v4(): ids already allocated
    queue,            \* every Queued job handed to DeploymentManager::queue_push, in order
    kills,            \* kills[d]: number of DeploymentManager::kill(d) requests issued
    pc,               \* pc[r]: where request r is in its handler ("idle": none running)
    loc,              \* loc[r]: the handler's arguments and local variables
    calls,            \* number of requests received so far
    last              \* the last completed event (a handler's return, an engine transition)

VARIABLES
    logs,             \* Registry: every Log row persisted so far, in emission order
    feedOpen,         \* the broadcast channel still has its sender
    spc,              \* spc[s]: where session s is in logs_websocket_handler
    target,           \* target[s]: the deployment id of the session (id)
    log_recv,         \* log_recv[s]: the session's broadcast receiver: events not yet received
    backlog,          \* backlog[s]: the part of the backlog not yet replayed
    last_timestamp,   \* last_timestamp[s]
    sent,             \* sent[s]: the frames the subscriber has been sent, in order
    connected,        \* connected[s]: the subscriber's end of the socket is there
    closes,           \* closes[s]: number of s.close() calls
    startLen,         \* startLen[s]: number of Log rows when the session subscribed
    readLen,          \* readLen[s]: number of Log rows when the session read the backlog
    snap              \* snap[s]: <<the rows (their n) the backlog read returned>>

logVars == <<logs, feedOpen, spc, target, log_recv, backlog, last_timestamp, sent, connected,
             closes, startLen, readLen, snap>>

httpVars == <<services, deployments, nextServiceId, nextDeploymentId, queue, kills, pc, loc, calls, last>>

\* ------------------------------------------------ Registry and Queue
get_service_by_name(name) == {s \in services : s.name = name}

get_deployment_row(id) == {d \in deployments : d.id = id}

deployments_of_service(service_id) == {d \in deployments : d.service_id = service_id}

insert_deployment_row(rows, d) == rows \cup {d}

queue_push_job(q, job) == Append(q, job)

kill_request(k, id) == [k EXCEPT ![id] = @ + 1]

kill_all(k, ids) == [d \in DOMAIN k |-> IF d \in ids THEN k[d] + 1 ELSE k[d]]

Snapshot == [services |-> services, deployments |-> deployments, queue |-> queue, kills |-> kills]

IdleLoc ==
    [op |-> "none", name |-> "", id |-> 0, no_test |-> FALSE, stream |-> <<>>,
     service |-> {}, deployment |-> {}, data |-> <<>>, old_deployments |-> {},
     pre |-> {}]

\* the upload loop of post_service: drain the stream, stop at the first failed read
RECURSIVE ReadStream(_, _)
ReadStream(stream, data) ==
    IF stream = <<>> THEN [ok |-> TRUE, data |-> data]
    ELSE IF Head(stream) = "ERR" THEN [ok |-> FALSE, data |-> data]
    ELSE ReadStream(Tail(stream), Append(data, Head(stream)))

\* An event: the call (op, name, id), the kind of result and its body. prev is the
\* result of the event right before it when that was the same call with the same
\* arguments (the call has been repeated), and empty otherwise.
Event(op, name, id, kind, body) ==
    [op |-> op, name |-> name, id |-> id, kind |-> kind, body |-> body,
     prev |-> IF last # <<>> /\ last[1].op = op /\ last[1].name = name /\ last[1].id = id
              THEN <<[kind |-> last[1].kind, body |-> last[1].body]>>
              ELSE <<>>]

\* the handler of request r returns: the response is recorded
Return(r, kind, body) ==
    /\ pc' = [pc EXCEPT ![r] = "idle"]
    /\ loc' = [loc EXCEPT ![r] = IdleLoc]
    /\ last' = <<Event(loc[r].op, loc[r].name, loc[r].id, kind, body)>>
    /\ UNCHANGED <<calls, logVars>>

Goto(r, label, newloc) ==
    /\ pc' = [pc EXCEPT ![r] = label]
    /\ loc' = [loc EXCEPT ![r] = newloc]
    /\ UNCHANGED <<calls, last, logVars>>

Begin(r, op, label, name, id, no_test, stream) ==
    /\ pc[r] = "idle"
    /\ calls < MaxCalls
    /\ calls' = calls + 1
    /\ pc' = [pc EXCEPT ![r] = label]
    /\ loc' = [loc EXCEPT ![r] = [IdleLoc EXCEPT !.op = op, !.name = name, !.id = id,
                                   !.no_test = no_test, !.stream = stream,
                                   !.pre = {Snapshot}]]
    /\ UNCHANGED <<services, deployments, nextServiceId, nextDeploymentId, queue, kills, last, logVars>>


\* ------------------------------------------------------------ post_service
post_service_begin(r) ==
    /\ nextDeploymentId <= MaxDeployments
    /\ \E name \in ServiceNames, no_test \in BOOLEAN, stream \in Streams :
          /\ get_service_by_name(name) # {} \/ nextServiceId <= MaxServices
          /\ Begin(r, "post_service", "ps_get_or_create", name, 0, no_test, stream)

\* line 217: get_or_create_service(&service_name).await?  (the Registry creates the
\* row when the name is new); lines 218-226: the fresh id and the Deployment value
post_service_get_or_create(r) ==
    /\ pc[r] = "ps_get_or_create"
    /\ \/ /\ UNCHANGED <<services, deployments, nextServiceId, nextDeploymentId, queue, kills>>
          /\ Return(r, "Internal", {})
       \/ /\ nextDeploymentId <= MaxDeployments
          /\ LET found == get_service_by_name(loc[r].name)
                 service == IF found # {} THEN CHOOSE s \in found : TRUE
                            ELSE [id |-> nextServiceId, name |-> loc[r].name]
                 id == nextDeploymentId
                 deployment == [id |-> id, service_id |-> service.id, state |-> States[1]]
             IN  /\ found = {} => nextServiceId <= MaxServices
                 /\ services' = services \cup {service}
                 /\ nextServiceId' = IF found = {} THEN nextServiceId + 1 ELSE nextServiceId
                 /\ nextDeploymentId' = nextDeploymentId + 1
                 /\ Goto(r, "ps_stream", [loc[r] EXCEPT !.service = {service}, !.id = id,
                                                        !.deployment = {deployment}])
          /\ UNCHANGED <<deployments, queue, kills>>

\* (mutant) a failed read of the upload stream is ignored and the bytes read so far are kept
post_service_stream_ignores_error(r) ==
    /\ pc[r] = "ps_stream"
    /\ UNCHANGED <<services, deployments, nextServiceId, nextDeploymentId, queue, kills>>
    /\ Goto(r, "ps_insert", [loc[r] EXCEPT !.data = ReadStream(loc[r].stream, <<>>).data])

\* lines 228-234: while let Some(buf) = stream.next().await { let buf = buf?; data.put(buf) }
post_service_stream(r) ==
    /\ pc[r] = "ps_stream"
    /\ UNCHANGED <<services, deployments, nextServiceId, nextDeploymentId, queue, kills>>
    /\ LET read == ReadStream(loc[r].stream, <<>>)
       IN  IF read.ok
           THEN Goto(r, "ps_insert", [loc[r] EXCEPT !.data = read.data])
           ELSE Return(r, "InputError", {})

\* (mutant) a failed insert is ignored and the handler goes on to the queue
post_service_insert_ignores_error(r) ==
    /\ pc[r] = "ps_insert"
    /\ UNCHANGED <<services, nextServiceId, nextDeploymentId, queue, kills>>
    /\ \/ UNCHANGED deployments
       \/ deployments' = insert_deployment_row(deployments, CHOOSE d \in loc[r].deployment : TRUE)
    /\ Goto(r, "ps_push", loc[r])

\* line 236: persistence.insert_deployment(deployment.clone()).await?
post_service_insert(r) ==
    /\ pc[r] = "ps_insert"
    /\ UNCHANGED <<services, nextServiceId, nextDeploymentId, queue, kills>>
    /\ \/ /\ UNCHANGED deployments
          /\ Return(r, "Internal", {})
       \/ /\ deployments' = insert_deployment_row(deployments, CHOOSE d \in loc[r].deployment : TRUE)
          /\ Goto(r, "ps_push", loc[r])

\* (mutant) the job is handed to the queue twice
post_service_push_twice(r) ==
    /\ pc[r] = "ps_push"
    /\ LET service == CHOOSE s \in loc[r].service : TRUE
           queued == [id |-> loc[r].id, service_name |-> service.name,
                      service_id |-> service.id, data |-> loc[r].data,
                      will_run_tests |-> ~loc[r].no_test]
       IN  queue' = queue_push_job(queue_push_job(queue, queued), queued)
    /\ UNCHANGED <<services, deployments, nextServiceId, nextDeploymentId, kills>>
    /\ Return(r, "Ok", loc[r].deployment)

\* lines 238-249: build the Queued job, queue_push(queued).await, Ok(Json(deployment))
post_service_push(r) ==
    /\ pc[r] = "ps_push"
    /\ LET service == CHOOSE s \in loc[r].service : TRUE
           queued == [id |-> loc[r].id, service_name |-> service.name,
                      service_id |-> service.id, data |-> loc[r].data,
                      will_run_tests |-> ~loc[r].no_test]
       IN  queue' = queue_push_job(queue, queued)
    /\ UNCHANGED <<services, deployments, nextServiceId, nextDeploymentId, kills>>
    /\ Return(r, "Ok", loc[r].deployment)

\* ---------------------------------------------------------- delete_service
delete_service_begin(r) ==
    /\ \A d \in deployments : kills[d.id] < MaxKills
    /\ \E name \in ServiceNames :
          Begin(r, "delete_service", "ds_get_service", name, 0, FALSE, <<>>)

\* line 258: get_service_by_name(&service_name).await? ; lines 290-292: NotFound
delete_service_get_service(r) ==
    /\ pc[r] = "ds_get_service"
    /\ UNCHANGED <<services, deployments, nextServiceId, nextDeploymentId, queue, kills>>
    /\ \/ Return(r, "Internal", {})
       \/ LET found == get_service_by_name(loc[r].name)
          IN  IF found = {} THEN Return(r, "NotFound", {})
              ELSE Goto(r, "ds_delete_deployments", [loc[r] EXCEPT !.service = found])

\* (mutant) the rows are deleted but the list of the deleted rows is lost
delete_service_delete_deployments_forgets(r) ==
    /\ pc[r] = "ds_delete_deployments"
    /\ UNCHANGED <<services, nextServiceId, nextDeploymentId, queue, kills>>
    /\ \/ /\ UNCHANGED deployments
          /\ Return(r, "Internal", {})
       \/ LET service == CHOOSE s \in loc[r].service : TRUE
              old_deployments == deployments_of_service(service.id)
          IN  /\ deployments' = deployments \ old_deployments
              /\ Goto(r, "ds_kill", [loc[r] EXCEPT !.old_deployments = {}])

\* lines 259-261: delete_deployments_by_service_id(&service.id).await?
delete_service_delete_deployments(r) ==
    /\ pc[r] = "ds_delete_deployments"
    /\ UNCHANGED <<services, nextServiceId, nextDeploymentId, queue, kills>>
    /\ \/ /\ UNCHANGED deployments
          /\ Return(r, "Internal", {})
       \/ LET service == CHOOSE s \in loc[r].service : TRUE
              old_deployments == deployments_of_service(service.id)
          IN  /\ deployments' = deployments \ old_deployments
              /\ Goto(r, "ds_kill", [loc[r] EXCEPT !.old_deployments = old_deployments])

\* (mutant) only one of the removed deployments is killed
delete_service_kill_first_only(r) ==
    /\ pc[r] = "ds_kill"
    /\ LET ids == {d.id : d \in loc[r].old_deployments}
           first == {d \in ids : \A e \in ids : d <= e}
       IN  /\ \A d \in ids : kills[d] < MaxKills
           /\ kills' = kill_all(kills, first)
    /\ Goto(r, "ds_resources", loc[r])
    /\ UNCHANGED <<services, deployments, nextServiceId, nextDeploymentId, queue>>

\* lines 263-265: for deployment in old_deployments.iter() { kill(deployment.id).await }
delete_service_kill(r) ==
    /\ pc[r] = "ds_kill"
    /\ LET ids == {d.id : d \in loc[r].old_deployments}
       IN  /\ \A d \in ids : kills[d] < MaxKills
           /\ kills' = kill_all(kills, ids)
    /\ Goto(r, "ds_resources", loc[r])
    /\ UNCHANGED <<services, deployments, nextServiceId, nextDeploymentId, queue>>

\* lines 267-272: get_service_resources(&service.id).await?
delete_service_resources(r) ==
    /\ pc[r] = "ds_resources"
    /\ UNCHANGED <<services, deployments, nextServiceId, nextDeploymentId, queue, kills>>
    /\ \/ Return(r, "Internal", {})
       \/ Goto(r, "ds_secrets", loc[r])

\* lines 273-278: get_secrets(&service.id).await?
delete_service_secrets(r) ==
    /\ pc[r] = "ds_secrets"
    /\ UNCHANGED <<services, deployments, nextServiceId, nextDeploymentId, queue, kills>>
    /\ \/ Return(r, "Internal", {})
       \/ Goto(r, "ds_delete_service", loc[r])

\* lines 280-289: persistence.delete_service(&service.id).await? ; Ok(Json(response))
delete_service_delete_row(r) ==
    /\ pc[r] = "ds_delete_service"
    /\ UNCHANGED <<deployments, nextServiceId, nextDeploymentId, queue, kills>>
    /\ \/ /\ UNCHANGED services
          /\ Return(r, "Internal", {})
       \/ LET service == CHOOSE s \in loc[r].service : TRUE
          IN  /\ services' = {s \in services : s.id # service.id}
              /\ Return(r, "Ok", loc[r].old_deployments)

\* ---------------------------------------------------------- get_deployment
get_deployment_begin(r) ==
    \E id \in DeploymentIds : Begin(r, "get_deployment", "gd_lookup", "", id, FALSE, <<>>)

\* (mutant) only deployments still in their first state are found
get_deployment_queued_only(r) ==
    /\ pc[r] = "gd_lookup"
    /\ UNCHANGED <<services, deployments, nextServiceId, nextDeploymentId, queue, kills>>
    /\ \/ Return(r, "Internal", {})
       \/ LET found == {d \in get_deployment_row(loc[r].id) : d.state = States[1]}
          IN  IF found = {} THEN Return(r, "NotFound", {}) ELSE Return(r, "Ok", found)

\* lines 300-304
get_deployment(r) ==
    /\ pc[r] = "gd_lookup"
    /\ UNCHANGED <<services, deployments, nextServiceId, nextDeploymentId, queue, kills>>
    /\ \/ Return(r, "Internal", {})
       \/ LET found == get_deployment_row(loc[r].id)
          IN  IF found = {} THEN Return(r, "NotFound", {}) ELSE Return(r, "Ok", found)

\* ------------------------------------------------------- delete_deployment
delete_deployment_begin(r) ==
    \E id \in DeploymentIds :
        /\ kills[id] < MaxKills
        /\ Begin(r, "delete_deployment", "dd_lookup", "", id, FALSE, <<>>)

\* line 313: persistence.get_deployment(&deployment_id).await? ; lines 317-319: NotFound
delete_deployment_lookup(r) ==
    /\ pc[r] = "dd_lookup"
    /\ UNCHANGED <<services, deployments, nextServiceId, nextDeploymentId, queue, kills>>
    /\ \/ Return(r, "Internal", {})
       \/ LET found == get_deployment_row(loc[r].id)
          IN  IF found = {} THEN Return(r, "NotFound", {})
              ELSE Goto(r, "dd_kill", [loc[r] EXCEPT !.deployment = found])

\* (mutant) cancelling writes a stopped state into the record
delete_deployment_kill_marks_stopped(r) ==
    /\ pc[r] = "dd_kill"
    /\ LET deployment == CHOOSE d \in loc[r].deployment : TRUE
       IN  /\ kills[deployment.id] < MaxKills
           /\ kills' = kill_request(kills, deployment.id)
           /\ deployments' = {IF d.id = deployment.id THEN [d EXCEPT !.state = "Stopped"] ELSE d :
                                d \in deployments}
    /\ UNCHANGED <<services, nextServiceId, nextDeploymentId, queue>>
    /\ Return(r, "Ok", loc[r].deployment)

\* (mutant) the record is read again after the kill and that one is returned
delete_deployment_kill_returns_current(r) ==
    /\ pc[r] = "dd_kill"
    /\ LET deployment == CHOOSE d \in loc[r].deployment : TRUE
       IN  /\ kills[deployment.id] < MaxKills
           /\ kills' = kill_request(kills, deployment.id)
    /\ UNCHANGED <<services, deployments, nextServiceId, nextDeploymentId, queue>>
    /\ Return(r, "Ok", get_deployment_row(loc[r].id))

\* (mutant) cancelling also removes the record from the Registry
delete_deployment_kill_removes_row(r) ==
    /\ pc[r] = "dd_kill"
    /\ LET deployment == CHOOSE d \in loc[r].deployment : TRUE
       IN  /\ kills[deployment.id] < MaxKills
           /\ kills' = kill_request(kills, deployment.id)
           /\ deployments' = {d \in deployments : d.id # deployment.id}
    /\ UNCHANGED <<services, nextServiceId, nextDeploymentId, queue>>
    /\ Return(r, "Ok", loc[r].deployment)

\* lines 314-316: deployment_manager.kill(deployment.id).await ; Ok(Json(deployment))
delete_deployment_kill(r) ==
    /\ pc[r] = "dd_kill"
    /\ LET deployment == CHOOSE d \in loc[r].deployment : TRUE
       IN  /\ kills[deployment.id] < MaxKills
           /\ kills' = kill_request(kills, deployment.id)
    /\ UNCHANGED <<services, deployments, nextServiceId, nextDeploymentId, queue>>
    /\ Return(r, "Ok", loc[r].deployment)

\* ------------------------------------------ the build engine (collaborator)
\* The engine advances the state of a deployment whose job it has received.
NextState(state) == IF state = States[1] THEN States[2] ELSE States[3]

engine_transition ==
    \E d \in deployments :
        /\ \E i \in 1..Len(queue) : queue[i].id = d.id
        /\ d.state # States[3]
        /\ deployments' = (deployments \ {d}) \cup {[d EXCEPT !.state = NextState(d.state)]}
        /\ UNCHANGED <<services, nextServiceId, nextDeploymentId, queue, kills, pc, loc, calls, logVars>>
        /\ last' = <<Event("engine", "", d.id, "Ok", {})>>


\* ---------------------------------------------- the log streaming session
\* A Log row: the deployment id, the timestamp, n (its content: the number of the
\* row in emission order) and item (whether it converts to a LogItem).
\* get_deployment_logs(&id): the rows of the deployment, ordered by timestamp
get_deployment_logs(id) == SelectSeq(logs, LAMBDA l : l.id = id)

\* Option::<LogItem>::from(log): some rows have no LogItem
ToLogItem(log) ==
    IF log.item THEN <<[type |-> "log", id |-> log.id, timestamp |-> log.timestamp, n |-> log.n]>>
    ELSE <<>>

Diagnostic == [type |-> "failed to get logs", id |-> 0, timestamp |-> 0, n |-> 0]

\* the receivers of the broadcast channel: a session holds log_recv from its first
\* statement to its return
Subscribed(s) == spc[s] \in {"backlog", "replay", "live"}

LastEmitted(id) ==
    LET rows == get_deployment_logs(id)
    IN  IF rows = <<>> THEN 0 ELSE rows[Len(rows)].timestamp

\* The timestamps of a deployment's rows never decrease. The handler only compares
\* timestamps, so a row either repeats the timestamp of the deployment's last row
\* or takes the next one; the first row is later than the epoch (0).
NextTimestamps(id) == {t \in {LastEmitted(id), LastEmitted(id) + 1} : t >= 1}

\* the build engine emits a log event of deployment id: the row is persisted and
\* the event is sent on the broadcast channel to every receiver
emit_log ==
    /\ feedOpen
    /\ Len(logs) < MaxLogs
    /\ \E id \in LogIds, item \in BOOLEAN :
       \E ts \in NextTimestamps(id) :
          LET log == [id |-> id, timestamp |-> ts, n |-> Len(logs) + 1, item |-> item]
          IN  /\ logs' = Append(logs, log)
              /\ log_recv' = [s \in Sessions |->
                                IF Subscribed(s) THEN Append(log_recv[s], log) ELSE log_recv[s]]
    /\ UNCHANGED <<feedOpen, spc, target, backlog, last_timestamp, sent, connected, closes,
                   startLen, readLen, snap, httpVars>>

\* the process shuts down: the sender of the broadcast channel is dropped
feed_teardown ==
    /\ feedOpen
    /\ feedOpen' = FALSE
    /\ UNCHANGED <<logs, spc, target, log_recv, backlog, last_timestamp, sent, connected, closes,
                   startLen, readLen, snap, httpVars>>

\* the subscriber goes away: every later send on the socket fails
client_disconnect(s) ==
    /\ spc[s] \in {"backlog", "replay", "live"}
    /\ connected[s]
    /\ connected' = [connected EXCEPT ![s] = FALSE]
    /\ UNCHANGED <<logs, feedOpen, spc, target, log_recv, backlog, last_timestamp, sent, closes,
                   startLen, readLen, snap, httpVars>>

\* s.send(msg).await: Ok and the frame reaches the subscriber, or Err
SendOk(s) == connected[s]

\* (mutant) the return of one session drops the receiver of every session
Dropped_every_receiver(s) ==
    /\ spc' = [spc EXCEPT ![s] = "closed"]
    /\ log_recv' = [t \in Sessions |-> <<>>]
    /\ backlog' = [backlog EXCEPT ![s] = <<>>]
    /\ last_timestamp' = [last_timestamp EXCEPT ![s] = 0]

\* the handler returns: its receiver and its locals are dropped
Dropped(s) ==
    /\ spc' = [spc EXCEPT ![s] = "closed"]
    /\ log_recv' = [log_recv EXCEPT ![s] = <<>>]
    /\ backlog' = [backlog EXCEPT ![s] = <<>>]
    /\ last_timestamp' = [last_timestamp EXCEPT ![s] = 0]

\* lines 341-350: the upgrade starts logs_websocket_handler(s, persistence, id);
\* let mut log_recv = persistence.get_log_subscriber()
ws_subscribe(s) ==
    /\ spc[s] = "idle"
    /\ \E id \in LogIds : target' = [target EXCEPT ![s] = id]
    /\ spc' = [spc EXCEPT ![s] = "backlog"]
    /\ log_recv' = [log_recv EXCEPT ![s] = <<>>]
    /\ startLen' = [startLen EXCEPT ![s] = Len(logs)]
    /\ UNCHANGED <<logs, feedOpen, backlog, last_timestamp, sent, connected, closes, readLen,
                   snap, httpVars>>

\* (mutant) the failure path of the backlog read lacks its return: the session
\* goes on to the live loop
ws_backlog_no_return(s) ==
    /\ spc[s] = "backlog"
    /\ \/ /\ sent' = [sent EXCEPT ![s] = IF SendOk(s) THEN Append(@, Diagnostic) ELSE @]
          /\ closes' = [closes EXCEPT ![s] = @ + 1]
          /\ spc' = [spc EXCEPT ![s] = "live"]
          /\ UNCHANGED <<readLen, snap, backlog, last_timestamp, log_recv>>
       \/ LET rows == get_deployment_logs(target[s])
          IN  /\ backlog' = [backlog EXCEPT ![s] = rows]
              /\ snap' = [snap EXCEPT ![s] = <<{rows[i].n : i \in 1..Len(rows)}>>]
              /\ readLen' = [readLen EXCEPT ![s] = Len(logs)]
              /\ last_timestamp' = [last_timestamp EXCEPT ![s] = 0]
              /\ spc' = [spc EXCEPT ![s] = IF rows = <<>> THEN "live" ELSE "replay"]
              /\ UNCHANGED <<sent, closes, log_recv>>
    /\ UNCHANGED <<logs, feedOpen, target, connected, startLen, httpVars>>

\* lines 351-368: the backlog read, its failure path, and last_timestamp = epoch
ws_backlog(s) ==
    /\ spc[s] = "backlog"
    /\ \/ /\ sent' = [sent EXCEPT ![s] = IF SendOk(s) THEN Append(@, Diagnostic) ELSE @]
          /\ closes' = [closes EXCEPT ![s] = @ + 1]
          /\ Dropped(s)
          /\ UNCHANGED <<readLen, snap>>
       \/ LET rows == get_deployment_logs(target[s])
          IN  /\ backlog' = [backlog EXCEPT ![s] = rows]
              /\ snap' = [snap EXCEPT ![s] = <<{rows[i].n : i \in 1..Len(rows)}>>]
              /\ readLen' = [readLen EXCEPT ![s] = Len(logs)]
              /\ last_timestamp' = [last_timestamp EXCEPT ![s] = 0]
              /\ spc' = [spc EXCEPT ![s] = IF rows = <<>> THEN "live" ELSE "replay"]
              /\ UNCHANGED <<sent, closes, log_recv>>
    /\ UNCHANGED <<logs, feedOpen, target, connected, startLen, httpVars>>

\* (mutant) the replay loop advances last_timestamp only for the rows it sends
ws_replay_advances_on_send(s) ==
    /\ spc[s] = "replay"
    /\ LET log == Head(backlog[s])
           log_item == ToLogItem(log)
           more == Tail(backlog[s]) # <<>>
       IN  IF log_item # <<>> /\ ~SendOk(s)
           THEN /\ Dropped(s)
                /\ UNCHANGED sent
           ELSE /\ last_timestamp' = [last_timestamp EXCEPT ![s] =
                                        IF log_item # <<>> THEN log.timestamp ELSE @]
                /\ backlog' = [backlog EXCEPT ![s] = Tail(@)]
                /\ sent' = [sent EXCEPT ![s] = IF log_item # <<>> THEN Append(@, log_item[1]) ELSE @]
                /\ spc' = [spc EXCEPT ![s] = IF more THEN "replay" ELSE "live"]
                /\ UNCHANGED log_recv
    /\ UNCHANGED <<logs, feedOpen, target, connected, closes, startLen, readLen, snap, httpVars>>

\* (mutant) the replay loop leaves last_timestamp at the epoch
ws_replay_keeps_epoch(s) ==
    /\ spc[s] = "replay"
    /\ LET log == Head(backlog[s])
           log_item == ToLogItem(log)
           more == Tail(backlog[s]) # <<>>
       IN  IF log_item # <<>> /\ ~SendOk(s)
           THEN /\ Dropped(s)
                /\ UNCHANGED sent
           ELSE /\ backlog' = [backlog EXCEPT ![s] = Tail(@)]
                /\ sent' = [sent EXCEPT ![s] = IF log_item # <<>> THEN Append(@, log_item[1]) ELSE @]
                /\ spc' = [spc EXCEPT ![s] = IF more THEN "replay" ELSE "live"]
                /\ UNCHANGED <<log_recv, last_timestamp>>
    /\ UNCHANGED <<logs, feedOpen, target, connected, closes, startLen, readLen, snap, httpVars>>

\* (mutant) the replay loop tracks last_timestamp but sends nothing
ws_replay_sends_nothing(s) ==
    /\ spc[s] = "replay"
    /\ LET log == Head(backlog[s])
           more == Tail(backlog[s]) # <<>>
       IN  /\ last_timestamp' = [last_timestamp EXCEPT ![s] = log.timestamp]
           /\ backlog' = [backlog EXCEPT ![s] = Tail(@)]
           /\ spc' = [spc EXCEPT ![s] = IF more THEN "replay" ELSE "live"]
           /\ UNCHANGED <<log_recv, sent>>
    /\ UNCHANGED <<logs, feedOpen, target, connected, closes, startLen, readLen, snap, httpVars>>

\* lines 370-381: one turn of the replay loop
ws_replay(s) ==
    /\ spc[s] = "replay"
    /\ LET log == Head(backlog[s])
           log_item == ToLogItem(log)
           more == Tail(backlog[s]) # <<>>
       IN  IF log_item # <<>> /\ ~SendOk(s)
           THEN /\ Dropped(s)
                /\ UNCHANGED sent
           ELSE /\ last_timestamp' = [last_timestamp EXCEPT ![s] = log.timestamp]
                /\ backlog' = [backlog EXCEPT ![s] = Tail(@)]
                /\ sent' = [sent EXCEPT ![s] = IF log_item # <<>> THEN Append(@, log_item[1]) ELSE @]
                /\ spc' = [spc EXCEPT ![s] = IF more THEN "replay" ELSE "live"]
                /\ UNCHANGED log_recv
    /\ UNCHANGED <<logs, feedOpen, target, connected, closes, startLen, readLen, snap, httpVars>>

\* (mutant) the filter lets an event through whose timestamp equals last_timestamp
Forwarded_accepts_equal(log, id, last_ts) == log.id = id /\ log.timestamp >= last_ts

\* (mutant) the filter does not look at the timestamp
Forwarded_ignores_timestamp(log, id, last_ts) == log.id = id

\* (mutant) the filter does not look at the deployment id
Forwarded_ignores_id(log, id, last_ts) == log.timestamp > last_ts

\* line 386: the filter of the live phase
Forwarded(log, id, last_ts) == log.id = id /\ log.timestamp > last_ts

\* (mutant) a forwarded live event advances last_timestamp to its timestamp
ws_live_advances(s) ==
    /\ spc[s] = "live"
    /\ log_recv[s] # <<>>
    /\ LET log == Head(log_recv[s])
           log_item == ToLogItem(log)
       IN  IF Forwarded(log, target[s], last_timestamp[s]) /\ log_item # <<>>
           THEN IF SendOk(s)
                THEN /\ sent' = [sent EXCEPT ![s] = Append(@, log_item[1])]
                     /\ log_recv' = [log_recv EXCEPT ![s] = Tail(@)]
                     /\ last_timestamp' = [last_timestamp EXCEPT ![s] = log.timestamp]
                     /\ UNCHANGED <<spc, backlog>>
                ELSE /\ Dropped(s)
                     /\ UNCHANGED sent
           ELSE /\ log_recv' = [log_recv EXCEPT ![s] = Tail(@)]
                /\ UNCHANGED <<spc, sent, backlog, last_timestamp>>
    /\ UNCHANGED <<logs, feedOpen, target, connected, closes, startLen, readLen, snap, httpVars>>

\* (mutant) the live loop ignores a failed send and goes on with the next event
ws_live_ignores_send_error(s) ==
    /\ spc[s] = "live"
    /\ log_recv[s] # <<>>
    /\ LET log == Head(log_recv[s])
           log_item == ToLogItem(log)
       IN  /\ sent' = [sent EXCEPT ![s] =
                         IF Forwarded(log, target[s], last_timestamp[s]) /\ log_item # <<>> /\ SendOk(s)
                         THEN Append(@, log_item[1]) ELSE @]
           /\ log_recv' = [log_recv EXCEPT ![s] = Tail(@)]
           /\ UNCHANGED <<spc, backlog, last_timestamp>>
    /\ UNCHANGED <<logs, feedOpen, target, connected, closes, startLen, readLen, snap, httpVars>>

\* lines 383-397: one turn of the live loop, log_recv.recv() returned Ok(log)
ws_live(s) ==
    /\ spc[s] = "live"
    /\ log_recv[s] # <<>>
    /\ LET log == Head(log_recv[s])
           log_item == ToLogItem(log)
       IN  IF Forwarded(log, target[s], last_timestamp[s]) /\ log_item # <<>>
           THEN IF SendOk(s)
                THEN /\ sent' = [sent EXCEPT ![s] = Append(@, log_item[1])]
                     /\ log_recv' = [log_recv EXCEPT ![s] = Tail(@)]
                     /\ UNCHANGED <<spc, backlog, last_timestamp>>
                ELSE /\ Dropped(s)
                     /\ UNCHANGED sent
           ELSE /\ log_recv' = [log_recv EXCEPT ![s] = Tail(@)]
                /\ UNCHANGED <<spc, sent, backlog, last_timestamp>>
    /\ UNCHANGED <<logs, feedOpen, target, connected, closes, startLen, readLen, snap, httpVars>>

\* lines 383 and 399: log_recv.recv() returned Err (the channel is closed and
\* drained): the loop ends, s.close()
ws_feed_closed(s) ==
    /\ spc[s] = "live"
    /\ log_recv[s] = <<>>
    /\ ~feedOpen
    /\ closes' = [closes EXCEPT ![s] = @ + 1]
    /\ Dropped(s)
    /\ UNCHANGED <<logs, feedOpen, target, sent, connected, startLen, readLen, snap, httpVars>>

LogInit ==
    /\ logs = <<>>
    /\ feedOpen = TRUE
    /\ spc = [s \in Sessions |-> "idle"]
    /\ target = [s \in Sessions |-> 0]
    /\ log_recv = [s \in Sessions |-> <<>>]
    /\ backlog = [s \in Sessions |-> <<>>]
    /\ last_timestamp = [s \in Sessions |-> 0]
    /\ sent = [s \in Sessions |-> <<>>]
    /\ connected = [s \in Sessions |-> TRUE]
    /\ closes = [s \in Sessions |-> 0]
    /\ startLen = [s \in Sessions |-> 0]
    /\ readLen = [s \in Sessions |-> 0]
    /\ snap = [s \in Sessions |-> <<>>]

SessionStep(s) ==
    \/ client_disconnect(s)
    \/ ws_subscribe(s)
    \/ ws_backlog(s)
    \/ ws_replay(s)
    \/ ws_live(s)
    \/ ws_feed_closed(s)

\* one streaming session beside the log emitter
LogNext ==
    \/ emit_log
    \/ feed_teardown
    \/ \E s \in {1} : SessionStep(s)

\* ------------------------------------------------------------ specification
HttpInit ==
    /\ services = {}
    /\ deployments = {}
    /\ nextServiceId = 1
    /\ nextDeploymentId = 1
    /\ queue = <<>>
    /\ kills = [d \in DeploymentIds |-> 0]
    /\ pc = [r \in Requests |-> "idle"]
    /\ loc = [r \in Requests |-> IdleLoc]
    /\ calls = 0
    /\ last = <<>>

AllIdle == \A r \in Requests : pc[r] = "idle"

HandlerBegin(r) ==
    \/ post_service_begin(r)
    \/ delete_service_begin(r)
    \/ get_deployment_begin(r)
    \/ delete_deployment_begin(r)

HandlerStep(r) ==
    \/ post_service_get_or_create(r)
    \/ post_service_stream(r)
    \/ post_service_insert(r)
    \/ post_service_push(r)
    \/ delete_service_get_service(r)
    \/ delete_service_delete_deployments(r)
    \/ delete_service_kill(r)
    \/ delete_service_resources(r)
    \/ delete_service_secrets(r)
    \/ delete_service_delete_row(r)
    \/ get_deployment(r)
    \/ delete_deployment_lookup(r)
    \/ delete_deployment_kill(r)

Init == HttpInit /\ LogInit

\* one request at a time: a handler runs to its return before anything else happens
Next ==
    \/ \E r \in {1} : AllIdle /\ HandlerBegin(r)
    \/ \E r \in {1} : HandlerStep(r)
    \/ AllIdle /\ engine_transition

vars == <<httpVars, logVars>>

Spec == Init /\ [][Next]_vars

\* admissions and deletions of one service name whose steps interleave
ConcBegin(r) ==
    \/ post_service_begin(r) /\ loc'[r].name = "web" /\ ~loc'[r].no_test
    \/ delete_service_begin(r) /\ loc'[r].name = "web"

ConcStep(r) ==
    \/ post_service_get_or_create(r)
    \/ post_service_stream(r)
    \/ post_service_insert(r)
    \/ post_service_push(r)
    \/ delete_service_get_service(r)
    \/ delete_service_delete_deployments(r)
    \/ delete_service_kill(r)
    \/ delete_service_resources(r)
    \/ delete_service_secrets(r)
    \/ delete_service_delete_row(r)

ConcNext ==
    \/ \E r \in Requests : ConcBegin(r)
    \/ \E r \in Requests : ConcStep(r)

ConcSpec == Init /\ [][ConcNext]_vars

LogSpec == Init /\ [][LogNext]_vars

\* admissions and cancellations one at a time, while the build engine advances the
\* deployments it has received at any moment, also between the steps of a handler
CancelNext ==
    \/ \E r \in {1} : AllIdle /\ (post_service_begin(r) \/ delete_deployment_begin(r))
    \/ \E r \in {1} : \/ post_service_get_or_create(r)
                       \/ post_service_stream(r)
                       \/ post_service_insert(r)
                       \/ post_service_push(r)
                       \/ delete_deployment_lookup(r)
                       \/ delete_deployment_kill(r)
    \/ engine_transition

CancelSpec == Init /\ [][CancelNext]_vars

\* several streaming sessions run beside the log emitter (here the emitted rows
\* are renderable rows of one deployment and the feed stays open); the subscriber
\* of one of the sessions may go
MultiNext ==
    \/ emit_log /\ logs'[Len(logs')].item /\ logs'[Len(logs')].id = 1
    \/ \E s \in Sessions : ws_subscribe(s) \/ ws_backlog(s) \/ ws_replay(s) \/ ws_live(s)
    \/ \E s \in {1} : client_disconnect(s)

MultiSpec == Init /\ [][MultiNext]_vars

\* ------------------------------------------------------------------ claims
Pre(r) == CHOOSE p \in loc[r].pre : TRUE
Returns(r) == pc[r] # "idle" /\ pc'[r] = "idle"
LastIs(op, kind) == last # <<>> /\ last[1].op = op /\ last[1].kind = kind
JobsOf(q, id) == {i \in 1..Len(q) : q[i].id = id}
StreamFails(stream) == \E i \in 1..Len(stream) : stream[i] = "ERR"

\* C1: when post_service returns success, the Registry holds a Deployment record
\* with the freshly allocated id and state Queued, and the call has handed exactly
\* one job, carrying that id, to the Queue.
C1_AdmissionQueuesOneJob ==
    [][\A r \in Requests :
         (Returns(r) /\ loc[r].op = "post_service" /\ last'[1].kind = "Ok") =>
            LET id == loc[r].id
            IN  /\ \A d \in Pre(r).deployments : d.id # id
                /\ JobsOf(Pre(r).queue, id) = {}
                /\ \E d \in deployments' :
                      /\ d.id = id
                      /\ d.state = "Queued"
                      /\ last'[1].body = {d}
                /\ Cardinality({d \in deployments' : d.id = id}) = 1
                /\ Len(queue') = Len(Pre(r).queue) + 1
                /\ SubSeq(queue', 1, Len(Pre(r).queue)) = Pre(r).queue
                /\ queue'[Len(queue')].id = id
    ]_vars

C1_Witness == AllIdle /\ LastIs("post_service", "Ok") /\ Len(queue) = 2

\* C7: get_deployment answers NotFound exactly when the Registry holds no record
\* with the id, otherwise it returns the record as the Registry holds it; it never
\* changes the Registry, the Queue or the cancellation requests. (A lookup the
\* Registry fails to answer surfaces as an internal error, line 300.)
C7_GetDeploymentNotFoundIff ==
    [][\A r \in Requests :
         (Returns(r) /\ loc[r].op = "get_deployment") =>
            LET e == last'[1]
                rows == {d \in deployments : d.id = loc[r].id}
            IN  /\ e.kind \in {"Ok", "NotFound", "Internal"}
                /\ e.kind = "NotFound" => rows = {}
                /\ (rows = {} /\ e.kind # "Internal") => e.kind = "NotFound"
                /\ (rows # {} /\ e.kind # "Internal") => (e.kind = "Ok" /\ e.body = rows)
                /\ UNCHANGED <<services, deployments, queue, kills>>
    ]_vars

C7_Witness ==
    /\ AllIdle
    /\ LastIs("get_deployment", "Ok")
    /\ \E d \in last[1].body : d.state = "Running"

\* C8: cancelling the same deployment twice in a row: the second delete_deployment
\* returns the same kind of result, with the same record, as the first, and no step
\* of delete_deployment changes the Registry (so the Registry after two calls is
\* the Registry after one).
C8_CancelTwiceSameAsOnce ==
    [][\A r \in Requests :
         /\ (loc[r].op = "delete_deployment" /\ pc'[r] # pc[r]) =>
               (services' = services /\ deployments' = deployments)
         /\ (Returns(r) /\ loc[r].op = "delete_deployment") =>
               LET e == last'[1]
               IN  (e.prev # <<>> /\ e.kind # "Internal" /\ e.prev[1].kind # "Internal") =>
                      (e.kind = e.prev[1].kind /\ e.body = e.prev[1].body)
    ]_vars

C8_Witness ==
    /\ AllIdle
    /\ LastIs("delete_deployment", "Ok")
    /\ last[1].prev # <<>>
    /\ last[1].prev[1].kind = "Ok"
    /\ kills[last[1].id] = 2

\* C9: when delete_service returns success, the Registry holds no Deployment of
\* the service, every deployment of the service that existed when the call began
\* has been issued a kill by the call, and the Service row is gone.
C9_DeleteServiceCascades ==
    [][\A r \in Requests :
         (Returns(r) /\ loc[r].op = "delete_service" /\ last'[1].kind = "Ok") =>
            LET service == CHOOSE s \in Pre(r).services : s.name = loc[r].name
                old == {d \in Pre(r).deployments : d.service_id = service.id}
            IN  /\ {d \in deployments' : d.service_id = service.id} = {}
                /\ \A d \in old : kills'[d.id] = Pre(r).kills[d.id] + 1
                /\ last'[1].body = old
                /\ {s \in services' : s.id = service.id \/ s.name = loc[r].name} = {}
    ]_vars

C9_Witness ==
    /\ AllIdle
    /\ LastIs("delete_service", "Ok")
    /\ Cardinality(last[1].body) = 2

\* C10: a failed admission never enqueues a job. When a read of the upload stream
\* fails, post_service returns an error, no Deployment has been inserted and no
\* job handed to the Queue; when the insert fails, it returns an error and no job
\* has been handed to the Queue.
C10_FailedAdmissionQueuesNothing ==
    [][\A r \in Requests :
         (Returns(r) /\ loc[r].op = "post_service") =>
            LET e == last'[1]
            IN  /\ StreamFails(loc[r].stream) =>
                   /\ e.kind \in {"InputError", "Internal"}
                   /\ deployments' = Pre(r).deployments
                   /\ queue' = Pre(r).queue
                /\ pc[r] = "ps_stream" => e.kind = "InputError"
                /\ (pc[r] = "ps_insert") =>
                   /\ e.kind = "Internal"
                   /\ deployments' = Pre(r).deployments
                   /\ queue' = Pre(r).queue
                /\ e.kind # "Ok" => queue' = Pre(r).queue
    ]_vars

C10_Witness ==
    /\ AllIdle
    /\ LastIs("post_service", "InputError")
    /\ deployments # {}
    /\ queue # <<>>

\* ------------------------------------------------- claims: log streaming
IsLog(f) == f.type = "log"
\* how many times the row n has been sent to the subscriber of session s
Count(s, n) == Cardinality({i \in 1..Len(sent[s]) : IsLog(sent[s][i]) /\ sent[s][i].n = n})
\* the session is in its live loop, has received everything published so far, and
\* no send has failed
Drained(s) == spc[s] = "live" /\ log_recv[s] = <<>> /\ connected[s]
BacklogRead(s) == snap[s] # <<>>
\* the rows of the target persisted and published between the two first steps of
\* the session (the subscription and the backlog read)
Between(s) == {n \in (startLen[s] + 1)..readLen[s] : logs[n].id = target[s]}

\* C2 (as stated): no frame is sent whose (deployment_id, timestamp) equals that of
\* a frame sent before it in the session.
C2_NoTwoSentShareIdAndTimestamp ==
    \A s \in Sessions : \A i, j \in 1..Len(sent[s]) :
        (i < j /\ IsLog(sent[s][i]) /\ IsLog(sent[s][j])) =>
            ~(sent[s][i].id = sent[s][j].id /\ sent[s][i].timestamp = sent[s][j].timestamp)

\* C2 (amended): no row is sent twice in a session: two frames sent with the same
\* (deployment_id, timestamp) are different rows of the log.
C2_NoRowSentTwice ==
    \A s \in Sessions : \A i, j \in 1..Len(sent[s]) :
        (i < j /\ IsLog(sent[s][i]) /\ IsLog(sent[s][j])) => sent[s][i].n # sent[s][j].n

C2_Witness ==
    \E s \in Sessions :
        /\ Drained(s)
        /\ BacklogRead(s)
        /\ \E n \in Between(s) : Count(s, n) = 1
        /\ \E i, j \in 1..Len(sent[s]) :
              i < j /\ sent[s][i].timestamp = sent[s][j].timestamp /\ sent[s][i].n # sent[s][j].n

\* C3: the frames of a session are sent in non-decreasing timestamp order, across
\* the replay of the backlog and the live feed.
C3_SentInTimestampOrder ==
    \A s \in Sessions : \A i, j \in 1..Len(sent[s]) :
        (i < j /\ IsLog(sent[s][i]) /\ IsLog(sent[s][j])) =>
            sent[s][i].timestamp <= sent[s][j].timestamp

C3_Witness ==
    \E s \in Sessions :
        /\ Drained(s)
        /\ BacklogRead(s)
        /\ Between(s) # {}
        /\ \E i, j \in 1..Len(sent[s]) :
              i < j /\ sent[s][i].n \in snap[s][1] /\ sent[s][j].n \notin snap[s][1]

\* C4: a session that is still connected and has received everything published so
\* far has sent every renderable row of its target exactly once.
C4_EveryRowSentExactlyOnce ==
    \A s \in Sessions :
        (Drained(s) /\ BacklogRead(s)) =>
            \A n \in 1..Len(logs) :
                (logs[n].id = target[s] /\ logs[n].item) => Count(s, n) = 1

\* C5: rows at t1 < t2 < t3 of one deployment, all renderable, the session started
\* after t1 was persisted and before t2 and t3 were emitted: the subscriber is sent
\* exactly t1, t2, t3 in that order; and a row replayed from the backlog is never
\* sent a second time when it also arrives on the live feed.
C5_BacklogThenLiveNoDuplicate ==
    \A s \in Sessions :
        (Drained(s) /\ BacklogRead(s)) =>
            LET rows == get_deployment_logs(target[s])
            IN  /\ ( /\ Len(rows) = 3
                     /\ rows[1].timestamp < rows[2].timestamp
                     /\ rows[2].timestamp < rows[3].timestamp
                     /\ \A i \in 1..3 : rows[i].item
                     /\ rows[1].n <= startLen[s]
                     /\ rows[2].n > startLen[s] )
                   => sent[s] = <<ToLogItem(rows[1])[1], ToLogItem(rows[2])[1], ToLogItem(rows[3])[1]>>
                /\ \A n \in snap[s][1] : Count(s, n) <= 1

C5_Witness ==
    \E s \in Sessions :
        /\ Drained(s)
        /\ BacklogRead(s)
        /\ Len(sent[s]) = 3
        /\ sent[s][1].timestamp < sent[s][2].timestamp
        /\ sent[s][2].timestamp < sent[s][3].timestamp
        /\ snap[s][1] = {sent[s][1].n}
        /\ startLen[s] = 1

\* C6 (as stated): a row of the target persisted and published between the
\* backlog read and the subscription is not in the backlog snapshot and is never
\* sent in that session.
C6_RowBetweenIsAbsent ==
    \A s \in Sessions :
        BacklogRead(s) => \A n \in Between(s) : n \notin snap[s][1] /\ Count(s, n) = 0

\* C6 (amended): the session subscribes before it reads the backlog, so a row of
\* the target persisted and published between the two is in the backlog snapshot;
\* its copy on the live feed is discarded, so it is never sent twice, and a
\* connected session that has caught up has sent it once when it is renderable.
C6_SubscribedBeforeBacklogRead ==
    \A s \in Sessions :
        /\ spc[s] = "backlog" => ~BacklogRead(s)
        /\ BacklogRead(s) =>
              \A n \in Between(s) :
                  /\ n \in snap[s][1]
                  /\ Count(s, n) <= 1
                  /\ (Drained(s) /\ logs[n].item) => Count(s, n) = 1

C6_Witness ==
    \E s \in Sessions :
        /\ Drained(s)
        /\ BacklogRead(s)
        /\ \E n \in Between(s) : logs[n].item /\ Count(s, n) = 1

\* C11: when the backlog read of a session fails, the session sends the
\* diagnostic message once and nothing else (the send is attempted once: the frame
\* reaches a subscriber that is still connected), calls close once and ends: it
\* sends no log frame, from the backlog or from the feed, then or later.
C11_BacklogFailureEndsSession ==
    [][\A s \in Sessions :
         /\ (spc[s] = "backlog" /\ spc'[s] # "backlog" /\ ~BacklogRead(s)') =>
               /\ spc'[s] = "closed"
               /\ sent'[s] = IF connected[s] THEN <<Diagnostic>> ELSE <<>>
               /\ closes'[s] = closes[s] + 1
               /\ log_recv'[s] = <<>>
         /\ spc[s] = "closed" =>
               /\ spc'[s] = "closed"
               /\ sent'[s] = sent[s]
               /\ closes'[s] = closes[s]
               /\ log_recv'[s] = <<>>
    ]_vars

C11_Witness ==
    \E s \in Sessions :
        /\ spc[s] = "closed"
        /\ ~BacklogRead(s)
        /\ sent[s] = <<Diagnostic>>
        /\ closes[s] = 1
        /\ \E n \in 1..Len(logs) : logs[n].id = target[s] /\ logs[n].item /\ n > startLen[s]

\* the rows the backlog read of session s returned, and the timestamp of the last
SnapRows(s) == SelectSeq(logs, LAMBDA l : l.n \in snap[s][1])
LastBacklogTimestamp(s) ==
    IF SnapRows(s) = <<>> THEN 0 ELSE SnapRows(s)[Len(SnapRows(s))].timestamp
Frames(rows) ==
    LET shown == SelectSeq(rows, LAMBDA l : l.item)
    IN  [i \in 1..Len(shown) |-> ToLogItem(shown[i])[1]]
\* what a session sends to a subscriber that stays, as a function of the log rows
\* and of the session's own backlog read only
OwnFrames(s) ==
    Frames(SnapRows(s)) \o
    Frames(SelectSeq(logs, LAMBDA l : /\ l.id = target[s]
                                      /\ l.n \notin snap[s][1]
                                      /\ l.timestamp > LastBacklogTimestamp(s)))
IsPrefix(a, b) == Len(a) <= Len(b) /\ SubSeq(b, 1, Len(a)) = a
\* the step is one of session s or of its subscriber
StepOf(s) ==
    \/ spc'[s] # spc[s]
    \/ connected'[s] # connected[s]
    \/ sent'[s] # sent[s]
    \/ backlog'[s] # backlog[s]
    \/ Len(log_recv'[s]) < Len(log_recv[s])

\* C12: with several sessions running, no step of a session or of its subscriber
\* (its disconnect, the failed send, the session's return) changes anything of
\* another session, of the Registry or of the Queue and its cancellation requests;
\* and every frame a session sends extends a prefix of the frames determined by the
\* log rows and its own backlog read, whatever the other sessions did.
C12_DisconnectEndsOnlyItsSession ==
    [][\A s \in Sessions :
         /\ StepOf(s) =>
               /\ \A t \in Sessions \ {s} :
                     /\ spc'[t] = spc[t]
                     /\ target'[t] = target[t]
                     /\ log_recv'[t] = log_recv[t]
                     /\ backlog'[t] = backlog[t]
                     /\ last_timestamp'[t] = last_timestamp[t]
                     /\ sent'[t] = sent[t]
                     /\ connected'[t] = connected[t]
                     /\ closes'[t] = closes[t]
               /\ UNCHANGED <<logs, feedOpen, services, deployments, queue, kills>>
         /\ (sent'[s] # sent[s] /\ BacklogRead(s)') => IsPrefix(sent'[s], OwnFrames(s)')
    ]_vars

C12_Witness ==
    \E s, t \in Sessions :
        /\ s # t
        /\ target[s] = target[t]
        /\ spc[s] = "closed"
        /\ ~connected[s]
        /\ BacklogRead(s)
        /\ BacklogRead(t)
        /\ Drained(t)
        /\ Len(sent[t]) > Len(sent[s])
        /\ sent[t][Len(sent[t])].n \notin snap[t][1]

\* the session leaves its replay loop or its live loop for good in this step
ExitsOnSend(s) ==
    /\ spc[s] = "replay" \/ (spc[s] = "live" /\ log_recv[s] # <<>>)
    /\ spc'[s] = "closed"
ExitsOnFeedClosed(s) == spc[s] = "live" /\ log_recv[s] = <<>> /\ spc'[s] = "closed"
\* the session runs a turn of one of its loops in this step
LoopTurn(s) ==
    \/ spc'[s] # spc[s]
    \/ backlog'[s] # backlog[s]
    \/ Len(log_recv'[s]) < Len(log_recv[s])

\* C13 (as stated): on both exits, the failed send and the closed feed, the session
\* calls close on the socket before it ends.
C13_ClosesOnEveryExit ==
    [][\A s \in Sessions :
         (ExitsOnSend(s) \/ ExitsOnFeedClosed(s)) => closes'[s] = closes[s] + 1
    ]_vars

\* C13 (amended): a turn of the replay or live loop whose send fails ends the
\* session, without a close of the socket; the live loop also ends when the feed
\* is closed and drained, and then the session calls close once; an ended session
\* sends nothing and forwards nothing more.
C13_SessionEndsOnFailedSendOrClosedFeed ==
    [][\A s \in Sessions :
         /\ ( /\ LoopTurn(s)
              /\ ~connected[s]
              /\ \/ spc[s] = "replay" /\ Head(backlog[s]).item
                 \/ /\ spc[s] = "live"
                    /\ log_recv[s] # <<>>
                    /\ Head(log_recv[s]).item
                    /\ Head(log_recv[s]).id = target[s]
                    /\ Head(log_recv[s]).timestamp > last_timestamp[s] )
            => spc'[s] = "closed"
         /\ ExitsOnSend(s) =>
               /\ ~connected[s]
               /\ sent'[s] = sent[s]
               /\ closes'[s] = closes[s]
         /\ ExitsOnFeedClosed(s) =>
               /\ ~feedOpen
               /\ sent'[s] = sent[s]
               /\ closes'[s] = closes[s] + 1
         /\ spc[s] = "closed" =>
               /\ spc'[s] = "closed"
               /\ sent'[s] = sent[s]
               /\ closes'[s] = closes[s]
    ]_vars

C13_Witness ==
    \E s \in Sessions :
        /\ spc[s] = "closed"
        /\ BacklogRead(s)
        /\ ~connected[s]
        /\ closes[s] = 0
        /\ sent[s] # <<>>
        /\ \E n \in 1..Len(logs) :
              logs[n].id = target[s] /\ logs[n].item /\ n \notin snap[s][1] /\ Count(s, n) = 0

\* the live loop of session s sends a frame in this step
LiveSend(s) == spc[s] = "live" /\ sent'[s] # sent[s]

\* C14 (as stated): every live event that is forwarded advances last_timestamp to
\* its own timestamp.
C14_ForwardedLiveEventAdvances ==
    [][\A s \in Sessions :
         LiveSend(s) => last_timestamp'[s] = Head(log_recv[s]).timestamp
    ]_vars

\* C14 (amended): in the live phase an event is forwarded only if its deployment
\* id is the target and its timestamp is strictly greater than last_timestamp;
\* last_timestamp is not changed in the live phase (it stays the timestamp of the
\* last backlog row, or the epoch), so a renderable event of the target with a
\* greater timestamp is forwarded to a connected subscriber whatever was forwarded
\* before it, also when its timestamp equals that of a live event already forwarded.
C14_LiveFilterKeepsBacklogTimestamp ==
    [][\A s \in Sessions :
         /\ LiveSend(s) =>
               /\ log_recv[s] # <<>>
               /\ Head(log_recv[s]).id = target[s]
               /\ Head(log_recv[s]).timestamp > last_timestamp[s]
               /\ sent'[s] = sent[s] \o ToLogItem(Head(log_recv[s]))
         /\ (spc[s] = "live" /\ spc'[s] = "live") =>
               /\ last_timestamp'[s] = last_timestamp[s]
               /\ last_timestamp[s] = LastBacklogTimestamp(s)
         /\ ( /\ spc[s] = "live"
              /\ Len(log_recv'[s]) < Len(log_recv[s])
              /\ connected[s]
              /\ Head(log_recv[s]).item
              /\ Head(log_recv[s]).id = target[s]
              /\ Head(log_recv[s]).timestamp > last_timestamp[s] )
            => sent'[s] = sent[s] \o ToLogItem(Head(log_recv[s]))
    ]_vars

C14_Witness ==
    \E s \in Sessions :
        /\ Drained(s)
        /\ BacklogRead(s)
        /\ \E i, j \in 1..Len(sent[s]) :
              /\ i < j
              /\ sent[s][i].n \notin snap[s][1]
              /\ sent[s][j].n \notin snap[s][1]
              /\ sent[s][i].timestamp = sent[s][j].timestamp
              /\ last_timestamp[s] < sent[s][i].timestamp

\* C15: every log frame a session sends carries the deployment id of the session's
\* target, in the replay of the backlog and in the live phase, although the feed
\* carries the events of every deployment.
C15_OnlyTargetDelivered ==
    \A s \in Sessions : \A i \in 1..Len(sent[s]) :
        IsLog(sent[s][i]) => sent[s][i].id = target[s]

C15_Witness ==
    \E s \in Sessions :
        /\ Drained(s)
        /\ BacklogRead(s)
        /\ \E i \in 1..Len(sent[s]) : sent[s][i].n \notin snap[s][1]
        /\ \E n \in 1..Len(logs) :
              /\ logs[n].id # target[s]
              /\ logs[n].item
              /\ n > startLen[s]
              /\ logs[n].timestamp > last_timestamp[s]

\* C16: last_timestamp is the epoch when the replay starts; after each turn of the
\* replay loop it is the timestamp of the row of that turn, sent or skipped; so in
\* the live phase it is the timestamp of the last backlog row (the epoch for an
\* empty backlog), and a live event of the target with that timestamp is discarded,
\* also when the last backlog row was skipped.
C16_ReplayTracksLastTimestamp ==
    [][\A s \in Sessions :
         /\ (spc[s] = "backlog" /\ BacklogRead(s)') => last_timestamp'[s] = 0
         /\ (spc[s] = "replay" /\ spc'[s] # "closed" /\ backlog'[s] # backlog[s]) =>
               /\ last_timestamp'[s] = Head(backlog[s]).timestamp
               /\ sent'[s] = sent[s] \o ToLogItem(Head(backlog[s]))
               /\ backlog'[s] = Tail(backlog[s])
         /\ (spc[s] # "live" /\ spc'[s] = "live") =>
               last_timestamp'[s] = LastBacklogTimestamp(s)'
         /\ ( /\ spc[s] = "live"
              /\ Len(log_recv'[s]) < Len(log_recv[s])
              /\ Head(log_recv[s]).timestamp = last_timestamp[s] )
            => sent'[s] = sent[s]
    ]_vars

C16_Witness ==
    \E s \in Sessions :
        /\ Drained(s)
        /\ BacklogRead(s)
        /\ SnapRows(s) # <<>>
        /\ ~SnapRows(s)[Len(SnapRows(s))].item
        /\ \E n \in 1..Len(logs) :
              /\ logs[n].id = target[s]
              /\ logs[n].item
              /\ n \notin snap[s][1]
              /\ logs[n].timestamp = last_timestamp[s]
              /\ Count(s, n) = 0

\* C17: delete_deployment on an id with a record issues exactly one kill request
\* for that id and returns the record as its lookup read it, before the request
\* (also when the engine has changed the record since); on an id with no record
\* it returns NotFound and issues no kill request.
C17_CancelKillsOnceReturnsRecordRead ==
    [][\A r \in Requests :
         loc[r].op = "delete_deployment" =>
            LET id == loc[r].id
                rows == {d \in deployments : d.id = id}
            IN  /\ (pc[r] = "dd_lookup" /\ pc'[r] = "dd_kill") =>
                      /\ rows # {}
                      /\ loc'[r].deployment = rows
                      /\ kills' = kills
                /\ (pc[r] = "dd_lookup" /\ Returns(r)) =>
                      /\ last'[1].kind \in {"NotFound", "Internal"}
                      /\ last'[1].kind = "NotFound" => rows = {}
                      /\ last'[1].kind = "Internal" \/ rows = {}
                      /\ kills' = Pre(r).kills
                /\ (pc[r] = "dd_kill" /\ pc'[r] = "dd_kill") => loc'[r] = loc[r] /\ kills' = kills
                /\ (pc[r] = "dd_kill" /\ pc'[r] # "dd_kill") =>
                      /\ Returns(r)
                      /\ last'[1].kind = "Ok"
                      /\ last'[1].body = loc[r].deployment
                      /\ \A d \in DeploymentIds :
                            kills'[d] = Pre(r).kills[d] + (IF d = id THEN 1 ELSE 0)
                /\ queue' = queue
    ]_vars

C17_Witness ==
    /\ AllIdle
    /\ LastIs("delete_deployment", "Ok")
    /\ kills[last[1].id] = 1
    /\ \E d \in last[1].body : d \notin deployments

ServiceExists(svcs, service_id) == \E x \in svcs : x.id = service_id

\* C18 (as stated): once every interleaved post_service and delete_service call
\* has returned, the Registry holds no Deployment whose Service row is gone.
C18_NoDeploymentOfDeletedService ==
    AllIdle => \A d \in deployments : ServiceExists(services, d.service_id)

\* C18 (amended): the cascade removes the deployments the Registry holds for the
\* service at its delete step and issues a kill for each of them; once every call
\* has returned, every admitted deployment whose record is gone has been issued a
\* kill, and a record whose Service row is gone is one that an admission inserted
\* after the cascade's delete step: its job is queued and no kill was issued for it.
C18_CascadeKillsWhatItRemoved ==
    [][/\ \A r \in Requests :
            /\ (pc[r] = "ds_delete_deployments" /\ pc'[r] = "ds_kill") =>
                  /\ loc'[r].old_deployments =
                        {d \in deployments : \E x \in loc[r].service : d.service_id = x.id}
                  /\ deployments' = deployments \ loc'[r].old_deployments
            /\ (pc[r] = "ds_kill" /\ pc'[r] # "ds_kill") =>
                  \A d \in loc[r].old_deployments : kills'[d.id] = kills[d.id] + 1
       /\ AllIdle' =>
            /\ \A id \in DeploymentIds :
                  (JobsOf(queue', id) # {} /\ \A d \in deployments' : d.id # id) =>
                      kills'[id] >= 1
            /\ \A d \in deployments' :
                  ~ServiceExists(services', d.service_id) =>
                      (kills'[d.id] = 0 /\ JobsOf(queue', d.id) # {})
    ]_vars

C18_Witness ==
    /\ AllIdle
    /\ \E d \in deployments :
          /\ ~ServiceExists(services, d.service_id)
          /\ JobsOf(queue, d.id) # {}
          /\ \E id \in DeploymentIds :
                /\ id # d.id
                /\ kills[id] = 1
                /\ \A e \in deployments : e.id # id

\* C19: no step of delete_deployment changes the Registry (no record is removed,
\* no field of a record changes) or the Queue; the only change of a call is one
\* kill request more for its id; and a get_deployment of the same id right after
\* a successful cancel returns the record the cancel returned, not NotFound.
C19_CancelLeavesRegistryUnchanged ==
    [][\A r \in Requests :
         /\ (loc[r].op = "delete_deployment" /\ pc'[r] # pc[r]) =>
               /\ UNCHANGED <<services, deployments, queue>>
               /\ \A d \in DeploymentIds : d # loc[r].id => kills'[d] = kills[d]
               /\ kills'[loc[r].id] \in {kills[loc[r].id], kills[loc[r].id] + 1}
               /\ kills' # kills => last'[1].kind = "Ok"
         /\ ( /\ Returns(r)
              /\ loc[r].op = "get_deployment"
              /\ LastIs("delete_deployment", "Ok")
              /\ last[1].id = loc[r].id
              /\ last'[1].kind # "Internal" )
            => (last'[1].kind = "Ok" /\ last'[1].body = last[1].body)
    ]_vars

C19_Witness ==
    /\ AllIdle
    /\ calls = 3
    /\ LastIs("get_deployment", "Ok")
    /\ kills[last[1].id] = 1
    /\ last[1].body \subseteq deployments

\* C20: a job reaches the Queue only from a post_service that has inserted the
\* Deployment record with the job's deployment id and service id in an earlier
\* step, and that insert happens only after the upload stream was read to its
\* end; the job carries the bytes read.
C20_RecordInsertedBeforeJobQueued ==
    [][/\ queue' # queue =>
            \E r \in Requests :
                /\ pc[r] = "ps_push"
                /\ Returns(r)
                /\ Len(queue') = Len(queue) + 1
                /\ SubSeq(queue', 1, Len(queue)) = queue
                /\ LET job == queue'[Len(queue')]
                   IN  /\ job.id = loc[r].id
                       /\ \E d \in loc[r].deployment :
                             d.id = job.id /\ d.service_id = job.service_id
                       /\ job.data = loc[r].stream
       /\ \A r \in Requests :
            /\ (pc'[r] = "ps_push" /\ pc[r] # "ps_push") =>
                  /\ pc[r] = "ps_insert"
                  /\ loc[r].deployment \subseteq deployments'
                  /\ \A d \in loc[r].deployment : d \notin deployments
                  /\ loc'[r] = loc[r]
            /\ (pc'[r] = "ps_insert" /\ pc[r] # "ps_insert") =>
                  /\ pc[r] = "ps_stream"
                  /\ ~StreamFails(loc[r].stream)
                  /\ loc'[r].data = loc[r].stream
                  /\ loc'[r].deployment = loc[r].deployment
                  /\ \A d \in loc[r].deployment : d \notin deployments'
            /\ (pc[r] = "ps_push" /\ pc'[r] = "ps_push") => loc'[r] = loc[r]
    ]_vars

C20_Witness ==
    /\ AllIdle
    /\ Len(queue) = 2
    /\ \A i \in 1..Len(queue) :
          /\ queue[i].data = <<"a", "b">>
          /\ \E d \in deployments : d.id = queue[i].id /\ d.service_id = queue[i].service_id
====
